---- MODULE Spec2Model ----
(***************************************************************************)
(* A model of scripts/plot-results.py: one invocation of main() reads a   *)
(* benchmark table and writes a fixed, kind-specific set of chart files.  *)
(* A chart file's content is the sequence of its axes; an axes is its     *)
(* title, its plotted lines (label and points) and its horizontal         *)
(* reference lines.  Strings are TLA+ strings, built and searched the way *)
(* the script builds and searches them.                                   *)
(***************************************************************************)
EXTENDS Integers, Sequences, FiniteSets, TLC

VARIABLES
    benchmark,    \* args.benchmark
    csv_file,     \* args.csv_file
    csvExists,    \* Path(args.csv_file).exists()
    cols,         \* the header of the csv file: the columns of df
    rows,         \* the rows of the csv file: the rows of df
    output,       \* args.output
    dirExists,    \* whether the output directory exists
    files,        \* the regular files on disk: path |-> content
    pc,           \* where the process is
    workloads,    \* plot_sysbench: workloads
    idx,          \* plot_sysbench: position of the first loop in workloads
    stdout,       \* lines printed to standard output
    stderr,       \* lines printed to standard error
    exitStatus,   \* -1 while running
    written,      \* history: the paths saved by this run, in order
    runs,         \* history: number of invocations so far
    prevFiles,    \* history: files when the previous invocation ended
    prevWritten   \* history: written when the previous invocation ended

vars == <<benchmark, csv_file, csvExists, cols, rows, output, dirExists, files,
          pc, workloads, idx, stdout, stderr, exitStatus, written, runs,
          prevFiles, prevWritten>>

---------------------------------------------------------------------------
(* Bounds of the model *)

MaxRows == 2
MaxRowsSysbench == 4
MaxRowsTpcc == 4
MaxRowsSysbenchTpcc == 3
MaxRuns == 2

---------------------------------------------------------------------------
(* Strings *)

LowerChars == "abcdefghijklmnopqrstuvwxyz"
UpperChars == "ABCDEFGHIJKLMNOPQRSTUVWXYZ"

\* sub in s
Contains(s, sub) ==
    \E i \in 1..(Len(s) - Len(sub) + 1) : SubSeq(s, i, i + Len(sub) - 1) = sub

UpperChar(c) ==
    IF \E i \in 1..Len(LowerChars) : SubSeq(LowerChars, i, i) = c
    THEN LET i == CHOOSE j \in 1..Len(LowerChars) : SubSeq(LowerChars, j, j) = c
         IN  SubSeq(UpperChars, i, i)
    ELSE c

RECURSIVE Upper(_)
\* s.upper()
Upper(s) ==
    IF Len(s) = 0 THEN ""
    ELSE UpperChar(SubSeq(s, 1, 1)) \o Upper(SubSeq(s, 2, Len(s)))

---------------------------------------------------------------------------
(* The table *)

Benchmarks == {"sysbench", "tpcc", "sysbench-tpcc"}

\* A row is a record over every column name; the fields of the columns a
\* kind's file does not have are fixed ("" or 0) and never read.
SysbenchRows ==
    [workload : {"ro", "rw", "wo", "pt"}, engine : {"innodb", "myrocks"},
     threads : {8}, tps : {250}, latency_avg : {3}, tpmC : {0}]

TpccRows ==
    [workload : {""}, engine : {"innodb", "myrocks"},
     threads : {1, 2, 4}, tps : {0}, latency_avg : {0}, tpmC : {60, 120}]

SysbenchTpccRows ==
    [workload : {""},
     engine : {"vanilla-innodb", "percona-myrocks", "innodb-myrocks", "InnoDB", "myrocks"},
     threads : {1, 2}, tps : {10}, latency_avg : {5}, tpmC : {600}]

RowDomain(kind) ==
    CASE kind = "sysbench" -> SysbenchRows
      [] kind = "tpcc" -> TpccRows
      [] kind = "sysbench-tpcc" -> SysbenchTpccRows

Header(kind) ==
    CASE kind = "sysbench" -> {"workload", "engine", "threads", "tps", "latency_avg"}
      [] kind = "tpcc" -> {"engine", "threads", "tpmC"}
      [] kind = "sysbench-tpcc" -> {"engine", "threads", "tpmC", "tps", "latency_avg"}

\* A merged result file holds one row per (workload, engine, threads).
KeysUnique(rs) ==
    \A i, j \in 1..Len(rs) :
        (/\ rs[i].workload = rs[j].workload
         /\ rs[i].engine = rs[j].engine
         /\ rs[i].threads = rs[j].threads) => i = j

Tables(kind, n) ==
    {rs \in UNION {[1..k -> RowDomain(kind)] : k \in 0..n} : KeysUnique(rs)}

\* df[df[col] == val]
Filter(rs, col, val) == SelectSeq(rs, LAMBDA r : r[col] = val)

RECURSIVE UniqueFrom(_, _)
UniqueFrom(s, seen) ==
    IF s = <<>> THEN <<>>
    ELSE IF Head(s) \in seen THEN UniqueFrom(Tail(s), seen)
         ELSE <<Head(s)>> \o UniqueFrom(Tail(s), seen \cup {Head(s)})

\* df[col]: every value, repeated as often as it appears
Column(rs, col) == [i \in 1..Len(rs) |-> rs[i][col]]

\* df[col].unique(): the distinct values in order of first appearance
Unique(rs, col) == UniqueFrom([i \in 1..Len(rs) |-> rs[i][col]], {})

---------------------------------------------------------------------------
(* Charts *)

\* (engine_df['threads'], engine_df[y])
Points(rs, y) == [i \in 1..Len(rs) |-> <<rs[i].threads, rs[i][y]>>]

Line(label, pts) == [label |-> label, pts |-> pts]

Axes(title, lines, hlines) == [title |-> title, lines |-> lines, hlines |-> hlines]

EmptyAxes == Axes("", <<>>, <<>>)

\* f"{output_dir}/{name}"
SavePath(dir, name) == dir \o "/" \o name

\* A save that never overwrites: an existing path gets a numbered sibling
SaveBeside(fs, path, chart) ==
    LET target == IF path \in DOMAIN fs THEN path \o ".1" ELSE path
    IN  [p \in DOMAIN fs \cup {target} |-> IF p = target THEN chart ELSE fs[p]]

\* plt.savefig(path): creates the file or overwrites it
Save(fs, path, chart) ==
    [p \in DOMAIN fs \cup {path} |-> IF p = path THEN chart ELSE fs[p]]

NoFiles == [p \in {} |-> <<>>]

---------------------------------------------------------------------------
(* Series arithmetic: a series is a sequence of <<index, value>> *)

\* df.set_index('threads')[col]
Series(rs, col) == [i \in 1..Len(rs) |-> <<rs[i].threads, rs[i][col]>>]

Index(s) == [i \in 1..Len(s) |-> s[i][1]]

Labels(s) == {s[i][1] : i \in 1..Len(s)}

ValueAt(s, t) == s[CHOOSE i \in 1..Len(s) : s[i][1] = t][2]

RECURSIVE GCD(_, _)
GCD(a, b) == IF b = 0 THEN a ELSE GCD(b, a % b)

\* a / b as a fraction in lowest terms
Div(a, b) == [num |-> a \div GCD(a, b), den |-> b \div GCD(a, b)]

\* The value of a label that one of the two operands does not have.
NaN == [num |-> 0, den |-> 0]

RECURSIVE SortedSeq(_)
SortedSeq(S) ==
    IF S = {} THEN <<>>
    ELSE LET m == CHOOSE x \in S : \A y \in S : x <= y
         IN  <<m>> \o SortedSeq(S \ {m})

\* left.values / right.values: a division by row position
SeriesDivByPosition(left, right) ==
    [i \in 1..(IF Len(left) < Len(right) THEN Len(left) ELSE Len(right)) |->
        <<left[i][1], Div(left[i][2], right[i][2])>>]

\* left / right: the operands are aligned on their index (an outer join,
\* sorted, unless the indexes are equal or one is empty) and divided label
\* by label.
SeriesDiv(left, right) ==
    IF Index(left) = Index(right)
    THEN [i \in 1..Len(left) |-> <<left[i][1], Div(left[i][2], right[i][2])>>]
    ELSE IF Len(right) = 0
    THEN [i \in 1..Len(left) |-> <<left[i][1], NaN>>]
    ELSE IF Len(left) = 0
    THEN [i \in 1..Len(right) |-> <<right[i][1], NaN>>]
    ELSE LET u == SortedSeq(Labels(left) \cup Labels(right))
         IN  [k \in 1..Len(u) |->
                <<u[k], IF u[k] \in Labels(left) \cap Labels(right)
                        THEN Div(ValueAt(left, u[k]), ValueAt(right, u[k]))
                        ELSE NaN>>]

---------------------------------------------------------------------------
(* plot_sysbench *)

SysbenchEngines == <<"innodb", "myrocks">>

\* The lines of one axes: one per engine of SysbenchEngines.
SysbenchLines(rs, workload, metric) ==
    LET workload_df == Filter(rs, "workload", workload)
    IN  [e \in 1..Len(SysbenchEngines) |->
            Line(Upper(SysbenchEngines[e]),
                 Points(Filter(workload_df, "engine", SysbenchEngines[e]), metric))]

SysbenchTpsChart(rs, workload) ==
    <<Axes("Sysbench " \o workload \o " - Throughput Comparison",
           SysbenchLines(rs, workload, "tps"), <<>>)>>

SysbenchLatencyChart(rs, workload) ==
    <<Axes("Sysbench " \o workload \o " - Latency Comparison",
           SysbenchLines(rs, workload, "latency_avg"), <<>>)>>

\* plt.subplots(1, 3, ...)
SummaryPanels == 3

\* workloads[:3]
SummaryWorkloads == 3

\* s[-n:]
LastN(s, n) == SubSeq(s, IF Len(s) < n THEN 1 ELSE Len(s) - n + 1, Len(s))

FirstN(s, n) == SubSeq(s, 1, IF Len(s) < n THEN Len(s) ELSE n)

SysbenchSummaryChart(rs, wl) ==
    LET shown == FirstN(wl, SummaryWorkloads)
    IN  [k \in 1..SummaryPanels |->
            IF k <= Len(shown)
            THEN Axes(shown[k], SysbenchLines(rs, shown[k], "tps"), <<>>)
            ELSE EmptyAxes]

---------------------------------------------------------------------------
(* plot_tpcc *)

TpccTpmCChart(rs) ==
    <<Axes("TPC-C Performance Comparison",
           [e \in 1..Len(SysbenchEngines) |->
               Line(Upper(SysbenchEngines[e]),
                    Points(Filter(rs, "engine", SysbenchEngines[e]), "tpmC"))],
           <<>>)>>

\* speedup = myrocks_df['tpmC'] / innodb_df['tpmC']
TpccSpeedup(rs) ==
    SeriesDiv(Series(Filter(rs, "engine", "myrocks"), "tpmC"),
              Series(Filter(rs, "engine", "innodb"), "tpmC"))

\* ax.axhline(y=1.0, ...)
EqualPerformance == 1

TpccSpeedupChart(rs) ==
    <<Axes("TPC-C Speedup: MyRocks vs InnoDB",
           <<Line("", TpccSpeedup(rs))>>, <<EqualPerformance>>)>>

---------------------------------------------------------------------------
(* plot_sysbench_tpcc *)

engine_map ==
    [e \in {"vanilla-innodb", "percona-innodb", "percona-myrocks", "innodb", "myrocks"} |->
        CASE e = "vanilla-innodb" -> "Vanilla InnoDB"
          [] e = "percona-innodb" -> "Percona InnoDB"
          [] e = "percona-myrocks" -> "Percona MyRocks"
          [] e = "innodb" -> "InnoDB"
          [] e = "myrocks" -> "MyRocks"]

\* engine_map.get(engine, engine.upper())
EngineLabel(engine) ==
    IF engine \in DOMAIN engine_map THEN engine_map[engine] ELSE Upper(engine)

\* One line per distinct engine value, in order of first appearance.
ComparisonLines(rs, metric) ==
    LET engines == Unique(rs, "engine")
    IN  [e \in 1..Len(engines) |->
            Line(EngineLabel(engines[e]),
                 Points(Filter(rs, "engine", engines[e]), metric))]

TpmCComparisonChart(rs) ==
    <<Axes("Sysbench-TPCC TpmC Comparison", ComparisonLines(rs, "tpmC"), <<>>)>>

TpsComparisonChart(rs) ==
    <<Axes("Sysbench-TPCC TPS Comparison", ComparisonLines(rs, "tps"), <<>>)>>

LatencyComparisonChart(rs) ==
    <<Axes("Sysbench-TPCC Latency Comparison", ComparisonLines(rs, "latency_avg"), <<>>)>>

\* innodb_engine = None, myrocks_engine = None
None == ""

RECURSIVE IdentifyTwoIfs(_, _)
\* The loop with a second "if" in place of the "elif"
IdentifyTwoIfs(engines, found) ==
    IF engines = <<>> THEN found
    ELSE LET engine == Head(engines)
             f1 == IF Contains(engine, "innodb")
                   THEN [found EXCEPT !.innodb_engine = engine] ELSE found
             f2 == IF Contains(engine, "myrocks")
                   THEN [f1 EXCEPT !.myrocks_engine = engine] ELSE f1
         IN  IdentifyTwoIfs(Tail(engines), f2)

RECURSIVE Identify(_, _)
\* The loop over unique_engines: if 'innodb' in engine ... elif 'myrocks' in engine ...
Identify(engines, found) ==
    IF engines = <<>> THEN found
    ELSE LET engine == Head(engines)
         IN  Identify(Tail(engines),
                      IF Contains(engine, "innodb")
                      THEN [found EXCEPT !.innodb_engine = engine]
                      ELSE IF Contains(engine, "myrocks")
                      THEN [found EXCEPT !.myrocks_engine = engine]
                      ELSE found)

Identified(rs) ==
    Identify(Unique(rs, "engine"), [innodb_engine |-> None, myrocks_engine |-> None])

\* len(unique_engines) == 2 and innodb_engine and myrocks_engine
DrawsSpeedup(rs) ==
    /\ Len(Unique(rs, "engine")) = 2
    /\ Identified(rs).innodb_engine # None
    /\ Identified(rs).myrocks_engine # None

SpeedupSeries(rs, metric) ==
    SeriesDiv(Series(Filter(rs, "engine", Identified(rs).myrocks_engine), metric),
              Series(Filter(rs, "engine", Identified(rs).innodb_engine), metric))

SpeedupComparisonChart(rs) ==
    <<Axes("Sysbench-TPCC Speedup: MyRocks vs InnoDB",
           <<Line("TpmC Speedup", SpeedupSeries(rs, "tpmC")),
             Line("TPS Speedup", SpeedupSeries(rs, "tps"))>>,
           <<EqualPerformance>>)>>

---------------------------------------------------------------------------
(* The columns each step reads, in the order it reads them.  Reading a    *)
(* column the table does not have raises KeyError, which nothing catches. *)

Reads(step) ==
    CASE step = "sysbench_unique" -> <<"workload">>
      [] step = "sysbench_tps" -> <<"workload", "engine", "threads", "tps">>
      [] step = "sysbench_latency" -> <<"engine", "threads", "latency_avg">>
      [] step = "sysbench_summary" ->
            IF workloads = <<>> THEN <<>> ELSE <<"workload", "engine", "threads", "tps">>
      [] step = "tpcc_tpmC" -> <<"engine", "threads", "tpmC">>
      [] step = "tpcc_speedup" -> <<"engine", "threads", "tpmC">>
      [] step = "tpmC_comparison" ->
            IF rows = <<>> THEN <<"engine">> ELSE <<"engine", "threads", "tpmC">>
      [] step = "tps_comparison" ->
            IF rows = <<>> THEN <<"engine">> ELSE <<"engine", "threads", "tps">>
      [] step = "latency_comparison" ->
            IF rows = <<>> THEN <<"engine">> ELSE <<"engine", "threads", "latency_avg">>
      [] step = "speedup_comparison" ->
            IF DrawsSpeedup(rows) THEN <<"engine", "threads", "tpmC", "tps">> ELSE <<"engine">>
      [] OTHER -> <<>>

Missing(step) == SelectSeq(Reads(step), LAMBDA c : c \notin cols)

CanPlot(step) == pc = step /\ Missing(step) = <<>>

PlotSteps ==
    {"sysbench_unique", "sysbench_tps", "sysbench_latency", "sysbench_summary",
     "tpcc_tpmC", "tpcc_speedup",
     "tpmC_comparison", "tps_comparison", "latency_comparison", "speedup_comparison"}

\* The first step of the plot function main dispatches to.
FirstStep(kind) ==
    CASE kind = "sysbench" -> "sysbench_unique"
      [] kind = "tpcc" -> "tpcc_tpmC"
      [] kind = "sysbench-tpcc" -> "tpmC_comparison"

\* plt.savefig(f"{output_dir}/{name}") in this run
SaveChart(name, chart) ==
    /\ files' = Save(files, SavePath(output, name), chart)
    /\ written' = Append(written, SavePath(output, name))

Args == <<benchmark, csv_file, csvExists, cols, rows, output>>
History == <<runs, prevFiles, prevWritten>>

---------------------------------------------------------------------------
(* main *)

\* The existence check placed after the mkdir
MainMissingCsvAfterMkdir ==
    /\ pc = "main"
    /\ ~csvExists
    /\ dirExists' = TRUE
    /\ stderr' = Append(stderr, "Error: CSV file not found: " \o csv_file)
    /\ exitStatus' = 1
    /\ pc' = "exited"
    /\ UNCHANGED <<Args, History, files, workloads, idx, stdout, written>>

\* if not Path(args.csv_file).exists(): print(..., file=sys.stderr); sys.exit(1)
MainMissingCsv ==
    /\ pc = "main"
    /\ ~csvExists
    /\ stderr' = Append(stderr, "Error: CSV file not found: " \o csv_file)
    /\ exitStatus' = 1
    /\ pc' = "exited"
    /\ UNCHANGED <<Args, History, dirExists, files, workloads, idx, stdout, written>>

\* output_dir.mkdir(parents=True, exist_ok=True), the two prints, the dispatch
MainSetup ==
    /\ pc = "main"
    /\ csvExists
    /\ dirExists' = TRUE
    /\ stdout' = stdout \o <<"Plotting " \o benchmark \o " results from " \o csv_file,
                             "Output directory: " \o output>>
    /\ pc' = FirstStep(benchmark)
    /\ UNCHANGED <<Args, History, files, workloads, idx, stderr, exitStatus, written>>

\* A KeyError handler that removes what the run has saved so far
PlotKeyErrorRollsBack ==
    /\ pc \in PlotSteps
    /\ Missing(pc) # <<>>
    /\ files' = [p \in DOMAIN files \ {written[i] : i \in 1..Len(written)} |-> files[p]]
    /\ stderr' = Append(stderr, "KeyError: '" \o Head(Missing(pc)) \o "'")
    /\ exitStatus' = 1
    /\ pc' = "exited"
    /\ UNCHANGED <<Args, History, dirExists, workloads, idx, stdout, written>>

\* An uncaught KeyError: the traceback goes to standard error, the status is 1.
PlotKeyError ==
    /\ pc \in PlotSteps
    /\ Missing(pc) # <<>>
    /\ stderr' = Append(stderr, "KeyError: '" \o Head(Missing(pc)) \o "'")
    /\ exitStatus' = 1
    /\ pc' = "exited"
    /\ UNCHANGED <<Args, History, dirExists, files, workloads, idx, stdout, written>>

\* print(f"Plots saved to {output_dir}") and the end of main
MainFinish ==
    /\ pc = "return"
    /\ stdout' = Append(stdout, "Plots saved to " \o output)
    /\ exitStatus' = 0
    /\ pc' = "exited"
    /\ UNCHANGED <<Args, History, dirExists, files, workloads, idx, stderr, written>>

\* The tool is run again with the same arguments on the same files.
Rerun ==
    /\ pc = "exited"
    /\ runs < MaxRuns
    /\ runs' = runs + 1
    /\ prevFiles' = files
    /\ prevWritten' = written
    /\ written' = <<>>
    /\ workloads' = <<>>
    /\ idx' = 1
    /\ stdout' = <<>>
    /\ stderr' = <<>>
    /\ exitStatus' = -1
    /\ pc' = "main"
    /\ UNCHANGED <<Args, dirExists, files>>

---------------------------------------------------------------------------
(* plot_sysbench *)

\* workloads = df['workload'].unique()
SysbenchUnique ==
    /\ CanPlot("sysbench_unique")
    /\ workloads' = Unique(rows, "workload")
    /\ idx' = 1
    /\ pc' = IF workloads' = <<>> THEN "sysbench_summary" ELSE "sysbench_tps"
    /\ UNCHANGED <<Args, History, dirExists, files, stdout, stderr, exitStatus, written>>

SysbenchTps ==
    /\ CanPlot("sysbench_tps")
    /\ SaveChart(workloads[idx] \o "_tps.png", SysbenchTpsChart(rows, workloads[idx]))
    /\ pc' = "sysbench_latency"
    /\ UNCHANGED <<Args, History, dirExists, workloads, idx, stdout, stderr, exitStatus>>

\* The latency chart saved under the throughput chart's name
SysbenchLatencyAsTps ==
    /\ CanPlot("sysbench_latency")
    /\ SaveChart(workloads[idx] \o "_tps.png", SysbenchLatencyChart(rows, workloads[idx]))
    /\ stdout' = Append(stdout, "Created plots for " \o workloads[idx])
    /\ idx' = idx + 1
    /\ pc' = IF idx = Len(workloads) THEN "sysbench_summary" ELSE "sysbench_tps"
    /\ UNCHANGED <<Args, History, dirExists, workloads, stderr, exitStatus>>

SysbenchLatency ==
    /\ CanPlot("sysbench_latency")
    /\ SaveChart(workloads[idx] \o "_latency.png", SysbenchLatencyChart(rows, workloads[idx]))
    /\ stdout' = Append(stdout, "Created plots for " \o workloads[idx])
    /\ idx' = idx + 1
    /\ pc' = IF idx = Len(workloads) THEN "sysbench_summary" ELSE "sysbench_tps"
    /\ UNCHANGED <<Args, History, dirExists, workloads, stderr, exitStatus>>

SysbenchSummary ==
    /\ CanPlot("sysbench_summary")
    /\ SaveChart("summary_comparison.png", SysbenchSummaryChart(rows, workloads))
    /\ stdout' = Append(stdout, "Created summary comparison plot")
    /\ pc' = "return"
    /\ UNCHANGED <<Args, History, dirExists, workloads, idx, stderr, exitStatus>>

---------------------------------------------------------------------------
(* plot_tpcc *)

TpccTpmC ==
    /\ CanPlot("tpcc_tpmC")
    /\ SaveChart("tpcc_tpmC.png", TpccTpmCChart(rows))
    /\ pc' = "tpcc_speedup"
    /\ UNCHANGED <<Args, History, dirExists, workloads, idx, stdout, stderr, exitStatus>>

TpccSpeedupPlot ==
    /\ CanPlot("tpcc_speedup")
    /\ SaveChart("tpcc_speedup.png", TpccSpeedupChart(rows))
    /\ stdout' = Append(stdout, "Created TPC-C plots")
    /\ pc' = "return"
    /\ UNCHANGED <<Args, History, dirExists, workloads, idx, stderr, exitStatus>>

---------------------------------------------------------------------------
(* plot_sysbench_tpcc *)

TpmCComparison ==
    /\ CanPlot("tpmC_comparison")
    /\ SaveChart("tpmC_comparison.png", TpmCComparisonChart(rows))
    /\ pc' = "tps_comparison"
    /\ UNCHANGED <<Args, History, dirExists, workloads, idx, stdout, stderr, exitStatus>>

TpsComparison ==
    /\ CanPlot("tps_comparison")
    /\ SaveChart("tps_comparison.png", TpsComparisonChart(rows))
    /\ pc' = "latency_comparison"
    /\ UNCHANGED <<Args, History, dirExists, workloads, idx, stdout, stderr, exitStatus>>

LatencyComparison ==
    /\ CanPlot("latency_comparison")
    /\ SaveChart("latency_comparison.png", LatencyComparisonChart(rows))
    /\ pc' = "speedup_comparison"
    /\ UNCHANGED <<Args, History, dirExists, workloads, idx, stdout, stderr, exitStatus>>

\* A skipped speedup chart that also removes the chart of an earlier run
SpeedupComparisonRemoves ==
    /\ CanPlot("speedup_comparison")
    /\ IF DrawsSpeedup(rows)
       THEN SaveChart("speedup_comparison.png", SpeedupComparisonChart(rows))
       ELSE /\ files' = [p \in DOMAIN files \ {SavePath(output, "speedup_comparison.png")} |->
                            files[p]]
            /\ written' = written
    /\ stdout' = Append(stdout, "Created sysbench-tpcc plots")
    /\ pc' = "return"
    /\ UNCHANGED <<Args, History, dirExists, workloads, idx, stderr, exitStatus>>

\* The speedup chart, drawn or skipped, and the function's last print.
SpeedupComparison ==
    /\ CanPlot("speedup_comparison")
    /\ IF DrawsSpeedup(rows)
       THEN SaveChart("speedup_comparison.png", SpeedupComparisonChart(rows))
       ELSE UNCHANGED <<files, written>>
    /\ stdout' = Append(stdout, "Created sysbench-tpcc plots")
    /\ pc' = "return"
    /\ UNCHANGED <<Args, History, dirExists, workloads, idx, stderr, exitStatus>>

---------------------------------------------------------------------------
(* Specifications *)

\* A file some earlier use of the directory left behind.
Stale == <<Axes("left by an earlier run", <<>>, <<>>)>>

\* What the output directory may hold before the run.
Leftovers(dir) ==
    {NoFiles,
     [p \in {SavePath(dir, "notes.txt"), SavePath(dir, "speedup_comparison.png")} |-> Stale]}

\* The header of the file: complete, or with one column missing.
Headers(kind) == {Header(kind)} \cup {Header(kind) \ {c} : c \in Header(kind)}

Start ==
    /\ csv_file = "merged_results.csv"
    /\ pc = "main"
    /\ workloads = <<>>
    /\ idx = 1
    /\ stdout = <<>>
    /\ stderr = <<>>
    /\ exitStatus = -1
    /\ written = <<>>
    /\ runs = 1
    /\ prevFiles = NoFiles
    /\ prevWritten = <<>>

\* Any invocation: any kind, the input file present or not, any header, the
\* output directory (the default "." or a named one) present or not.
Init ==
    /\ Start
    /\ benchmark \in Benchmarks
    /\ csvExists \in BOOLEAN
    /\ cols \in IF csvExists THEN Headers(benchmark) ELSE {{}}
    /\ rows \in IF csvExists THEN Tables(benchmark, MaxRows) ELSE {<<>>}
    /\ output \in {".", "plots"}
    /\ dirExists \in IF output = "." THEN {TRUE} ELSE BOOLEAN
    /\ files \in IF dirExists THEN Leftovers(output) ELSE {NoFiles}

\* An invocation on a well-formed file of one kind, into a fresh directory.
InitKind(kind, n) ==
    /\ Start
    /\ benchmark = kind
    /\ csvExists = TRUE
    /\ cols = Header(kind)
    /\ rows \in Tables(kind, n)
    /\ output = "plots"
    /\ dirExists = FALSE
    /\ files = NoFiles

Next ==
    \/ MainMissingCsv
    \/ MainSetup
    \/ PlotKeyError
    \/ MainFinish
    \/ Rerun
    \/ SysbenchUnique
    \/ SysbenchTps
    \/ SysbenchLatency
    \/ SysbenchSummary
    \/ TpccTpmC
    \/ TpccSpeedupPlot
    \/ TpmCComparison
    \/ TpsComparison
    \/ LatencyComparison
    \/ SpeedupComparison

Spec == Init /\ [][Next]_vars

NextSysbench ==
    MainSetup \/ SysbenchUnique \/ SysbenchTps \/ SysbenchLatency \/ SysbenchSummary
    \/ MainFinish

SpecSysbench == InitKind("sysbench", MaxRowsSysbench) /\ [][NextSysbench]_vars

NextTpcc == MainSetup \/ TpccTpmC \/ TpccSpeedupPlot \/ MainFinish

SpecTpcc == InitKind("tpcc", MaxRowsTpcc) /\ [][NextTpcc]_vars

NextSysbenchTpcc ==
    MainSetup \/ TpmCComparison \/ TpsComparison \/ LatencyComparison
    \/ SpeedupComparison \/ MainFinish

SpecSysbenchTpcc ==
    InitKind("sysbench-tpcc", MaxRowsSysbenchTpcc) /\ [][NextSysbenchTpcc]_vars

---------------------------------------------------------------------------
(* Vocabulary of the properties *)

Exited == pc = "exited"

Succeeded == pc = "exited" /\ exitStatus = 0

\* The paths this run has saved.
Written == {written[i] : i \in 1..Len(written)}

Wrote(name) == SavePath(output, name) \in Written

OnDisk(name) == SavePath(output, name) \in DOMAIN files

Values(col) == {rows[i][col] : i \in 1..Len(rows)}

\* The row where value v of column col first appears.
FirstRow(col, v) ==
    CHOOSE i \in 1..Len(rows) : rows[i][col] = v /\ \A j \in 1..(i - 1) : rows[j][col] # v

\* The position of v among the distinct values of col, by first appearance.
Rank(col, v) == 1 + Cardinality({u \in Values(col) : FirstRow(col, u) < FirstRow(col, v)})

ValueOfRank(col, k) == CHOOSE v \in Values(col) : Rank(col, v) = k

RowSet(engine) == {i \in 1..Len(rows) : rows[i].engine = engine}

ThreadSet(engine) == {rows[i].threads : i \in RowSet(engine)}

IsPrefix(a, b) == Len(a) <= Len(b) /\ a = SubSeq(b, 1, Len(a))

NumWorkloads == Cardinality(Values("workload"))

\* The charts of a complete run, in the order the code saves them.
ChartOrder ==
    CASE benchmark = "sysbench" ->
            [k \in 1..(2 * NumWorkloads + 1) |->
                IF k = 2 * NumWorkloads + 1
                THEN SavePath(output, "summary_comparison.png")
                ELSE IF k % 2 = 1
                THEN SavePath(output, ValueOfRank("workload", (k + 1) \div 2) \o "_tps.png")
                ELSE SavePath(output, ValueOfRank("workload", k \div 2) \o "_latency.png")]
      [] benchmark = "tpcc" ->
            <<SavePath(output, "tpcc_tpmC.png"), SavePath(output, "tpcc_speedup.png")>>
      [] benchmark = "sysbench-tpcc" ->
            <<SavePath(output, "tpmC_comparison.png"), SavePath(output, "tps_comparison.png"),
              SavePath(output, "latency_comparison.png")>>
            \o (IF DrawsSpeedup(rows)
                THEN <<SavePath(output, "speedup_comparison.png")>> ELSE <<>>)

---------------------------------------------------------------------------
(* C1: sysbench-tpcc writes speedup_comparison.png exactly when the table  *)
(* has two distinct engines of which exactly one contains "innodb" and     *)
(* exactly one contains "myrocks"; otherwise nothing is written for it and *)
(* the run completes without error.                                        *)

Engines == Values("engine")

\* C1 as stated: refuted by an engine label that contains both substrings.
C1_AsClaimed ==
    Exited =>
        /\ exitStatus = 0
        /\ OnDisk("speedup_comparison.png") <=>
              /\ Cardinality(Engines) = 2
              /\ Cardinality({e \in Engines : Contains(e, "innodb")}) = 1
              /\ Cardinality({e \in Engines : Contains(e, "myrocks")}) = 1

\* C1 amended: a well-formed sysbench-tpcc run ends without error, and it
\* writes speedup_comparison.png if and only if the table has exactly two
\* distinct engines, one containing "innodb" and the other containing
\* "myrocks" but not "innodb".
C1_SpeedupWrittenIff ==
    Exited =>
        /\ exitStatus = 0
        /\ Wrote("speedup_comparison.png") <=> OnDisk("speedup_comparison.png")
        /\ OnDisk("speedup_comparison.png") <=>
              /\ Cardinality(Engines) = 2
              /\ \E a, b \in Engines :
                    /\ Contains(a, "innodb")
                    /\ ~Contains(b, "innodb")
                    /\ Contains(b, "myrocks")

C1_Witness ==
    /\ Exited
    /\ Wrote("speedup_comparison.png")
    /\ \E e \in Engines : Contains(e, "innodb") /\ Contains(e, "myrocks")

---------------------------------------------------------------------------
(* C2: with no csv file, main prints an error naming the path to standard *)
(* error and exits with status 1 before anything else: the output         *)
(* directory is not created, no plot function runs, no file is written.   *)

\* C2: the missing-file path of main prints, exits 1, and changes nothing.
C2_MissingCsv ==
    /\ [](~csvExists =>
            /\ pc \in {"main", "exited"}
            /\ written = <<>>
            /\ stdout = <<>>
            /\ Exited => /\ exitStatus = 1
                         /\ Len(stderr) = 1
                         /\ Contains(stderr[1], csv_file))
    /\ [][~csvExists => UNCHANGED <<dirExists, files>>]_vars

C2_Witness == Exited /\ ~csvExists /\ ~dirExists /\ output = "plots"

---------------------------------------------------------------------------
(* C3: whenever a speedup ratio is computed, the two engine row subsets   *)
(* are disjoint, both non-empty, and have the same set of threads values. *)

\* The engines whose rows the ratio divides.
Operands ==
    IF benchmark = "tpcc"
    THEN [innodb_engine |-> "innodb", myrocks_engine |-> "myrocks"]
    ELSE Identified(rows)

RatioComputed ==
    \/ benchmark = "tpcc" /\ Wrote("tpcc_speedup.png")
    \/ benchmark = "sysbench-tpcc" /\ Wrote("speedup_comparison.png")

SpeedupFile ==
    IF benchmark = "tpcc" THEN SavePath(output, "tpcc_speedup.png")
    ELSE SavePath(output, "speedup_comparison.png")

---------------------------------------------------------------------------
(* C4: a successful sysbench run on n distinct workloads writes exactly   *)
(* the 2n+1 files {workload}_tps.png and {workload}_latency.png of every  *)
(* workload, and summary_comparison.png.                                   *)

SysbenchFiles ==
    UNION {{SavePath(output, w \o "_tps.png"), SavePath(output, w \o "_latency.png")} :
             w \in Values("workload")}
    \cup {SavePath(output, "summary_comparison.png")}

\* C4: a successful sysbench run saves exactly these 2n+1 different paths.
C4_SysbenchFiles ==
    Succeeded =>
        /\ Written = SysbenchFiles
        /\ DOMAIN files = SysbenchFiles
        /\ Len(written) = 2 * NumWorkloads + 1
        /\ Cardinality(Written) = 2 * NumWorkloads + 1

C4_Witness ==
    /\ Succeeded
    /\ Values("workload") = {"ro", "rw"}
    /\ Values("engine") = {"innodb", "myrocks"}
    /\ Cardinality(DOMAIN files) = 5

---------------------------------------------------------------------------
(* C5: in tpcc, when the innodb rows and the myrocks rows cover the same  *)
(* threads values, the series of tpcc_speedup.png has one point per       *)
(* threads value, myrocks.tpmC / innodb.tpmC of the rows with that value, *)
(* and the chart has a horizontal line at 1.0.                            *)

Aligned == ThreadSet("innodb") = ThreadSet("myrocks")

TpmCAt(engine, t) ==
    rows[CHOOSE i \in 1..Len(rows) : rows[i].engine = engine /\ rows[i].threads = t].tpmC

\* C5: the tpcc speedup series is joined by threads value, with the line at 1.0.
C5_TpccSpeedup ==
    (Succeeded /\ Aligned) =>
        LET chart == files[SavePath(output, "tpcc_speedup.png")]
            pts == chart[1].lines[1].pts
        IN  /\ Len(chart) = 1
            /\ Len(chart[1].lines) = 1
            /\ Len(pts) = Cardinality(ThreadSet("innodb"))
            /\ \A t \in ThreadSet("innodb") :
                  \E i \in 1..Len(pts) :
                      /\ pts[i][1] = t
                      /\ pts[i][2].den # 0
                      /\ pts[i][2].num * TpmCAt("innodb", t)
                            = pts[i][2].den * TpmCAt("myrocks", t)
            /\ chart[1].hlines = <<1>>

C5_Witness ==
    /\ Succeeded
    /\ Aligned
    /\ Cardinality(ThreadSet("innodb")) = 2
    /\ Index(Series(Filter(rows, "engine", "innodb"), "tpmC"))
          # Index(Series(Filter(rows, "engine", "myrocks"), "tpmC"))
    /\ \E t \in ThreadSet("innodb") : TpmCAt("innodb", t) # TpmCAt("myrocks", t)

---------------------------------------------------------------------------
(* C6: a sysbench-tpcc run writes tpmC_comparison.png, tps_comparison.png *)
(* and latency_comparison.png, each with exactly one line per distinct    *)
(* engine of the table, in order of first appearance, also when three or  *)
(* more engines make it skip the speedup chart.                           *)

ComparisonCharts ==
    {<<"tpmC_comparison.png", "tpmC">>, <<"tps_comparison.png", "tps">>,
     <<"latency_comparison.png", "latency_avg">>}

\* C6: each comparison chart has one line per engine, by first appearance.
C6_ComparisonLines ==
    Exited =>
        \A c \in ComparisonCharts :
            /\ Wrote(c[1])
            /\ OnDisk(c[1])
            /\ LET lines == files[SavePath(output, c[1])][1].lines
               IN  /\ Len(lines) = Cardinality(Engines)
                   /\ \A e \in Engines :
                         lines[Rank("engine", e)]
                            = Line(EngineLabel(e), Points(Filter(rows, "engine", e), c[2]))

C6_Witness ==
    /\ Exited
    /\ Cardinality(Engines) = 3
    /\ ~OnDisk("speedup_comparison.png")
    /\ \A c \in ComparisonCharts : Len(files[SavePath(output, c[1])][1].lines) = 3

---------------------------------------------------------------------------
(* C7: the charts are saved one after another in the fixed order of the   *)
(* kind; when the run aborts at a chart, the charts before it are on disk *)
(* and stay there, no later chart is written, nothing is retried or       *)
(* rolled back.                                                           *)

\* C7: charts are saved in the fixed order, and an abort keeps the earlier ones.
C7_ChartOrder ==
    /\ [](/\ IsPrefix(written, ChartOrder)
          /\ Written \subseteq DOMAIN files
          /\ Succeeded => written = ChartOrder
          /\ (Exited /\ exitStatus = 1 /\ csvExists) => Len(written) < Len(ChartOrder))
    /\ [][runs' = runs =>
            /\ \/ written' = written /\ files' = files
               \/ /\ Len(written) < Len(ChartOrder)
                  /\ written' = Append(written, ChartOrder[Len(written) + 1])
            /\ \A p \in DOMAIN files : p \in DOMAIN files'
            /\ \A p \in Written : files'[p] = files[p]
            /\ Exited => UNCHANGED <<files, written, pc>>]_vars

C7_Witness ==
    /\ Exited
    /\ exitStatus = 1
    /\ csvExists
    /\ Len(written) >= 1
    /\ Written \subseteq DOMAIN files

---------------------------------------------------------------------------
(* C8: summary_comparison.png has one populated panel for each of the     *)
(* first min(3, n) distinct workloads, in first-seen order; a fourth      *)
(* workload is in no panel but has its own two charts; with fewer than    *)
(* three workloads the other panels stay empty and the file is written.   *)

\* C8: the summary shows the first min(3, n) workloads, the other panels empty.
C8_SummaryPanels ==
    Succeeded =>
        /\ Wrote("summary_comparison.png")
        /\ LET panels == files[SavePath(output, "summary_comparison.png")]
               shown == IF NumWorkloads < 3 THEN NumWorkloads ELSE 3
           IN  /\ Len(panels) = 3
               /\ \A k \in 1..3 :
                     IF k <= shown
                     THEN LET w == ValueOfRank("workload", k)
                          IN  /\ panels[k].title = w
                              /\ Len(panels[k].lines) = 2
                              /\ \A e \in 1..2 :
                                    panels[k].lines[e].pts
                                       = Points(Filter(Filter(rows, "workload", w),
                                                       "engine", SysbenchEngines[e]), "tps")
                     ELSE panels[k] = EmptyAxes
        /\ \A w \in Values("workload") : Wrote(w \o "_tps.png") /\ Wrote(w \o "_latency.png")

C8_Witness ==
    /\ Succeeded
    /\ NumWorkloads = 4
    /\ \A k \in 1..3 : files[SavePath(output, "summary_comparison.png")][k].title
                          = ValueOfRank("workload", k)
    /\ Wrote(ValueOfRank("workload", 4) \o "_tps.png")

---------------------------------------------------------------------------
(* C9: a second run with the same kind, table and output directory writes *)
(* the same file names as the first, from the same data, overwriting the  *)
(* first run's files and adding none.                                     *)

\* C9: a rerun saves the same paths and leaves the same files.
C9_Idempotent ==
    (runs >= 2 /\ Exited) =>
        /\ written = prevWritten
        /\ files = prevFiles

C9_Witness ==
    /\ runs = 2
    /\ Succeeded
    /\ Len(written) >= 3
    /\ written = prevWritten

---------------------------------------------------------------------------
(* C10: a run deletes no file and touches no file outside the names it    *)
(* writes for its kind and table; a speedup_comparison.png of an earlier  *)
(* run survives, unchanged, a sysbench-tpcc run that skips the chart.     *)

ChartNames == {ChartOrder[k] : k \in 1..Len(ChartOrder)}

\* C10: no step deletes a file or changes a file other than the chart it saves.
C10_Frame ==
    /\ [](/\ Written \subseteq ChartNames
          /\ \A p \in DOMAIN files : (runs = 1 /\ p \notin Written) => files[p] = Stale)
    /\ [][\A p \in DOMAIN files :
            /\ p \in DOMAIN files'
            /\ files'[p] # files[p] => p \in ChartNames /\ written' = Append(written, p)]_vars

C10_Witness ==
    /\ benchmark = "sysbench-tpcc"
    /\ Succeeded
    /\ ~Wrote("speedup_comparison.png")
    /\ OnDisk("speedup_comparison.png")
    /\ files[SavePath(output, "speedup_comparison.png")] = Stale
    /\ OnDisk("notes.txt")
    /\ Wrote("tpmC_comparison.png") /\ Wrote("tps_comparison.png")
    /\ Wrote("latency_comparison.png")

====
